---- MODULE Spec2Model ----
(***************************************************************************)
(* A model of tfrdump (src/tfrdump.cpp): main reads one TIE FIGHTER pilot  *)
(* file into a 3855-byte buffer, the Pilot constructor decodes the known   *)
(* offsets, operator<< renders the record.                                 *)
(*                                                                         *)
(* Numbers.  TLC's integers are 32-bit signed, so a DWORD (uint32_t) is    *)
(* held as two 16-bit limbs [hi, lo] with value hi * 65536 + lo.  The same *)
(* shape with an unbounded hi holds the exact (mathematical) values the    *)
(* DWORD arithmetic is compared with.  BYTE and WORD values are integers.  *)
(***************************************************************************)
EXTENDS Integers, Sequences, FiniteSets, TLC

(***************************************************************************)
(* Program constants.                                                      *)
(***************************************************************************)
FileSize == 3855        \* array<BYTE,3855> pilotfilebuffer
NumKills == 68          \* array<WORD,68> kills
NumTraining == 28       \* array<DWORD,28> trainingpoints
NumBattlePoints == 104  \* array<DWORD,104> battlepoints
NumBattles == 13        \* array<BYTE,13> battlestatus, missionchoose
NumShips == 7           \* tf, ti, tb, ta, gun, td, missileboat
SimDeclared == 3        \* BYTE tf_sim[3] ... missileboat_sim[3]
SimMissions == 4        \* for(int i=0; i<4; ++i) over the *_sim arrays

Byte == 0..255
Limb == 256 * 256

(***************************************************************************)
(* Bounds of the model (not of the program).                               *)
(***************************************************************************)
MaxExtraLen == 1        \* input files of up to FileSize + MaxExtraLen bytes
MaxSlotSample == 4      \* point-array slots 0..MaxSlotSample-1 (and the last) are varied
MaxUninit == 0          \* uninitialised bytes range over {0, 255} and 1..MaxUninit

(***************************************************************************)
(* Bit operations on one limb (0..65535), as the shifts and ORs of betoW   *)
(* and betoDW compute them.                                                *)
(***************************************************************************)
RECURSIVE BitOr(_, _)
BitOr(a, b) ==
    IF a = 0 THEN b
    ELSE IF b = 0 THEN a
    ELSE (IF (a % 2 = 1) \/ (b % 2 = 1) THEN 1 ELSE 0) + 2 * BitOr(a \div 2, b \div 2)

Pow2(k) == CASE k = 0 -> 1 [] k = 8 -> 256 [] k = 16 -> 65536 [] k = 24 -> 16777216

\* (BYTE) b << k for k in {0, 8}: an int below 65536, promoted without sign.
ShlW(b, k) == b * Pow2(k)

\* x |= v for a WORD x: the int result is converted back to 16 bits.
OrW(x, v) == BitOr(x, v) % Limb

Zero32 == [hi |-> 0, lo |-> 0]

\* (BYTE) b << k as a 32-bit pattern.  The int result of b << 24 is negative
\* for b >= 128; converting it to DWORD for the |= keeps its 32 bits.
Shl32(b, k) ==
    IF k >= 16
    THEN [hi |-> (b * Pow2(k - 16)) % Limb, lo |-> 0]
    ELSE [hi |-> (b * Pow2(k)) \div Limb, lo |-> (b * Pow2(k)) % Limb]

\* x |= v for a DWORD x.
Or32(x, v) == [hi |-> BitOr(x.hi, v.hi), lo |-> BitOr(x.lo, v.lo)]

(***************************************************************************)
(* Exact arithmetic on [hi, lo] numbers (lo < 65536, hi any natural).      *)
(***************************************************************************)
IsZero(v) == v.hi = 0 /\ v.lo = 0
Less(a, b) == a.hi < b.hi \/ (a.hi = b.hi /\ a.lo < b.lo)
Sub(a, b) ==   \* a - b for a >= b
    IF a.lo >= b.lo
    THEN [hi |-> a.hi - b.hi, lo |-> a.lo - b.lo]
    ELSE [hi |-> a.hi - b.hi - 1, lo |-> a.lo + Limb - b.lo]
Twice(a, bit) ==   \* 2 * a + bit
    [hi |-> 2 * a.hi + (2 * a.lo + bit) \div Limb, lo |-> (2 * a.lo + bit) % Limb]
BitAt(a, i) ==
    IF i < 16 THEN (a.lo \div (2 ^ i)) % 2 ELSE (a.hi \div (2 ^ (i - 16))) % 2
MulSmall(n, a) ==   \* n * a for a small n
    [hi |-> n * a.hi + (n * a.lo) \div Limb, lo |-> (n * a.lo) % Limb]
FromInt(n) == [hi |-> n \div Limb, lo |-> n % Limb]

\* Op(v) with v evaluated once, before Op is applied to it
Strict(v, Op(_)) == CHOOSE out \in {Op(x) : x \in {v}} : TRUE

\* floor(a / b) for b > 0 by binary long division over the low 40 bits of a:
\* s is [q, r], the quotient and the remainder of the bits above bit i
DivStep(a, b, i, s) ==
    LET r2 == Twice(s.r, BitAt(a, i))
    IN  IF Less(r2, b)
        THEN [q |-> Twice(s.q, 0), r |-> r2]
        ELSE [q |-> Twice(s.q, 1), r |-> Sub(r2, b)]
\* the steps for bits top, top-1, .., bot (the range is halved to keep the
\* evaluation shallow; the steps run in the same order)
RECURSIVE DivLoop(_, _, _, _, _)
DivLoop(a, b, top, bot, s) ==
    IF top = bot THEN DivStep(a, b, top, s)
    ELSE LET mid == (top + bot + 1) \div 2
         IN  Strict(DivLoop(a, b, top, mid, s), LAMBDA t : DivLoop(a, b, mid - 1, bot, t))
Div(a, b) ==
    Strict(<<a, b>>, LAMBDA ab : DivLoop(ab[1], ab[2], 39, 0, [q |-> Zero32, r |-> Zero32]).q)

\* Conversion to uint32_t: modulo 2^32.
ToDWORD(v) == [hi |-> v.hi % Limb, lo |-> v.lo]

\* unsigned int multiplication and division, as in (100*p.laserhits) / p.lasersfired
Mul32(n, a) == ToDWORD(MulSmall(n, a))
Div32(a, b) == ToDWORD(Div(a, b))

\* (int) of a DWORD, as in (int)p.points: the two's complement reading
ToInt32(v) ==
    IF v.hi < 32768 THEN [neg |-> FALSE, mag |-> v]
    ELSE [neg |-> TRUE,
          mag |-> [hi |-> (Limb - 1) - v.hi + (IF v.lo = 0 THEN 1 ELSE 0),
                   lo |-> (Limb - v.lo) % Limb]]

(***************************************************************************)
(* The input file, as the ifstream sees it: whether the path opens, its    *)
(* length, and its bytes (all `base` except at the offsets of `pokes`).    *)
(***************************************************************************)
FileByte(f, i) == IF i \in DOMAIN f.pokes THEN f.pokes[i] ELSE f.base

NoPokes == [i \in {} |-> 0]
NoProbe == [w |-> 0, off |-> 0, v |-> [hi |-> 0, lo |-> 0]]
MkFile(e, n, b, pk) == [exists |-> e, len |-> n, base |-> b, pokes |-> pk, probe |-> NoProbe]

\* The bytes of a WORD / DWORD value at an offset, least significant byte first
\* (the file's layout: the byte at the highest offset is the most significant).
EncodeW(off, v) == [i \in off..(off + 1) |-> IF i = off THEN v % 256 ELSE v \div 256]
EncodeDW(off, v) ==
    [i \in off..(off + 3) |->
        CASE i = off     -> v.lo % 256
          [] i = off + 1 -> v.lo \div 256
          [] i = off + 2 -> v.hi % 256
          [] i = off + 3 -> v.hi \div 256]

(***************************************************************************)
(* Field offsets of the decoder (Pilot::Pilot).                            *)
(***************************************************************************)
NavyrankOffset == 2
DifficultyOffset == 3
PointsOffset == 4
LevelOffset == 8
SecretrankOffset == 10
CertOffset == 90
UnusedCertOffset == 97
SimOffset(k, i) == 520 + 8 * k + i
ActivebattleOffset == 616
BattlestatusOffset == 617
MissionchooseOffset == 637
KillsOffset(i) == 1632 + i * 2
LasersfiredOffset == 1908
LaserhitsOffset == 1912
WarheadsfiredOffset == 1920
WarheadhitsOffset == 1922
TrainingOffset(i) == 2064 + i * 4
BattlepointsOffset(i) == 2914 + i * 4
TotalOffset == 3554
CapturedOffset == 3556
LostOffset == 3854

(***************************************************************************)
(* pilotfilebuffer[i].  std::array::operator[] does not check its index:   *)
(* index 3855 is the byte after the array, which is the member declared    *)
(* next, unused1, never initialised.  obj is [pilotfilebuffer, unused1].   *)
(***************************************************************************)
BufferAt(obj, i) ==
    IF i < FileSize THEN obj.pilotfilebuffer[i] ELSE obj.unused1

\* WORD Pilot::betoW(unsigned short offset)
betoW(obj, offset) ==
    LET x0 == 0
        x1 == OrW(x0, ShlW(BufferAt(obj, offset + 1), 8))
        x2 == OrW(x1, ShlW(BufferAt(obj, offset), 0))
    IN  x2

\* conventional big-endian order: most significant byte first
betoDW_msbfirst(obj, offset) ==
    Or32(Or32(Or32(Or32(Zero32,
        Shl32(BufferAt(obj, offset), 24)),
        Shl32(BufferAt(obj, offset + 1), 16)),
        Shl32(BufferAt(obj, offset + 2), 8)),
        Shl32(BufferAt(obj, offset + 3), 0))

\* DWORD Pilot::betoDW(unsigned short offset)
betoDW(obj, offset) ==
    LET x0 == Zero32
        x1 == Or32(x0, Shl32(BufferAt(obj, offset + 3), 24))
        x2 == Or32(x1, Shl32(BufferAt(obj, offset + 2), 16))
        x3 == Or32(x2, Shl32(BufferAt(obj, offset + 1), 8))
        x4 == Or32(x3, Shl32(BufferAt(obj, offset), 0))
    IN  x4

(***************************************************************************)
(* The load loop of Pilot::Pilot.  pilotfilebuffer.fill(0x0); then, if the *)
(* stream is open, 3855 times: pilotstream.read(readbuffer,1) and          *)
(* pilotfilebuffer[i] = (BYTE) *readbuffer.  A read at end of file fails   *)
(* and stores nothing, so *readbuffer keeps the last byte read, or, when   *)
(* no byte was ever read, what `new char` left there (uninit).             *)
(***************************************************************************)
ReadbufferAt(f, uninit, i) ==   \* *readbuffer after the read of iteration i
    IF i < f.len THEN FileByte(f, i)
    ELSE IF f.len = 0 THEN uninit
    ELSE FileByte(f, f.len - 1)

LoadBuffer(f, uninit) ==
    IF f.exists
    THEN [i \in 0..(FileSize - 1) |-> ReadbufferAt(f, uninit, i)]
    ELSE [i \in 0..(FileSize - 1) |-> 0]

(***************************************************************************)
(* The seven *_sim arrays are declared BYTE x[3] but stored and read at    *)
(* indices 0..3.  The members lie one after another in declaration order   *)
(* (tf_sim, ti_sim, tb_sim, ta_sim, gun_sim, td_sim, missileboat_sim,      *)
(* activebattle), so element 3 of one array is element 0 of the next, and  *)
(* missileboat_sim[3] is activebattle.  mem is that region, 0..21.         *)
(***************************************************************************)
SimAddr(k, i) == SimDeclared * k + i

\* store number n of the loop (ship n % 7 of iteration n \div 7)
StoreOne(obj, mem, n) ==
    LET i == n \div NumShips
        k == n % NumShips
    IN  [mem EXCEPT ![SimAddr(k, i)] = BufferAt(obj, SimOffset(k, i))]

\* the stores lo..hi-1 of the loop, in program order
RECURSIVE StoreSim(_, _, _, _)
StoreSim(obj, mem, lo, hi) ==
    IF hi = lo + 1 THEN StoreOne(obj, mem, lo)
    ELSE LET mid == (lo + hi) \div 2
         IN  Strict(StoreSim(obj, mem, lo, mid), LAMBDA m : StoreSim(obj, m, mid, hi))

(***************************************************************************)
(* A store to x_sim[3] is a store past the end of x_sim: the build may     *)
(* take it not to touch the next member, so the two stores that land on    *)
(* one address (x_sim[3] and the next array's element 0; missileboat_sim[3]*)
(* and activebattle) reach memory in program order or in the opposite one. *)
(***************************************************************************)
SimStoreOrders == {"program", "reordered"}

\* the region 0..21 after the loop and after activebattle = pilotfilebuffer[616]
SimFinal(obj, order) ==
    LET m == StoreSim(obj, [a \in 0..(SimDeclared * NumShips) |-> 0], 0, SimMissions * NumShips)
    IN  IF order = "program"
        THEN [m EXCEPT ![SimDeclared * NumShips] = BufferAt(obj, ActivebattleOffset)]
        ELSE [a \in 0..(SimDeclared * NumShips) |->
                 IF a % SimDeclared = 0 /\ a \in 1..(SimDeclared * NumShips - 1)
                 THEN BufferAt(obj, SimOffset(a \div SimDeclared, 0))
                 ELSE m[a]]

\* p.x_sim[i] for ship k
SimAt(p, k, i) ==
    IF SimAddr(k, i) < SimDeclared * NumShips THEN p.sim[SimAddr(k, i)] ELSE p.activebattle

(***************************************************************************)
(* Every read of pilotfilebuffer the constructor performs, as              *)
(* <<offset, width>>, in the order of the code.                            *)
(***************************************************************************)
DecoderReads ==
    {<<NavyrankOffset, 1>>, <<DifficultyOffset, 1>>, <<PointsOffset, 4>>,
     <<LevelOffset, 2>>, <<SecretrankOffset, 1>>}
    \cup {<<CertOffset + i, 1>> : i \in 0..(NumShips - 1)}
    \cup {<<UnusedCertOffset + i, 1>> : i \in 0..4}
    \cup {<<SimOffset(k, i), 1>> : k \in 0..(NumShips - 1), i \in 0..(SimMissions - 1)}
    \cup {<<ActivebattleOffset, 1>>}
    \cup {<<BattlestatusOffset + i, 1>> : i \in 0..(NumBattles - 1)}
    \cup {<<MissionchooseOffset + i, 1>> : i \in 0..(NumBattles - 1)}
    \cup {<<KillsOffset(i), 2>> : i \in 0..(NumKills - 1)}
    \cup {<<LasersfiredOffset, 4>>, <<LaserhitsOffset, 4>>,
          <<WarheadsfiredOffset, 2>>, <<WarheadhitsOffset, 2>>}
    \cup {<<TrainingOffset(i), 4>> : i \in 0..(NumTraining - 1)}
    \cup {<<BattlepointsOffset(i), 4>> : i \in 0..(NumBattlePoints - 1)}
    \cup {<<TotalOffset, 2>>, <<CapturedOffset, 2>>, <<LostOffset, 2>>}

(***************************************************************************)
(* Pilot::Pilot(string filename): the object after construction.           *)
(*   uninit  what `new char` holds before the first read                   *)
(*   unused1 what the never-assigned member unused1 holds                  *)
(*   order   how the stores past the *_sim arrays reach memory             *)
(***************************************************************************)
PilotOf(f, uninit, unused1, order) ==
    LET obj == [pilotfilebuffer |-> LoadBuffer(f, uninit), unused1 |-> unused1]
        mem == SimFinal(obj, order)
    IN  [pilotfilebuffer |-> obj.pilotfilebuffer,
         unused1         |-> unused1,
         navyrank        |-> BufferAt(obj, NavyrankOffset),
         difficulty      |-> BufferAt(obj, DifficultyOffset),
         points          |-> betoDW(obj, PointsOffset),
         level           |-> betoW(obj, LevelOffset),
         secretrank      |-> BufferAt(obj, SecretrankOffset),
         cert            |-> [k \in 0..(NumShips - 1) |-> BufferAt(obj, CertOffset + k)],
         unused_cert     |-> [i \in 0..4 |-> BufferAt(obj, UnusedCertOffset + i)],
         sim             |-> [a \in 0..(SimDeclared * NumShips - 1) |-> mem[a]],
         activebattle    |-> mem[SimDeclared * NumShips],
         battlestatus    |-> [i \in 0..(NumBattles - 1) |-> BufferAt(obj, BattlestatusOffset + i)],
         missionchoose   |-> [i \in 0..(NumBattles - 1) |-> BufferAt(obj, MissionchooseOffset + i)],
         kills           |-> [i \in 0..(NumKills - 1) |-> betoW(obj, KillsOffset(i))],
         lasersfired     |-> betoDW(obj, LasersfiredOffset),
         laserhits       |-> betoDW(obj, LaserhitsOffset),
         warheadsfired   |-> betoW(obj, WarheadsfiredOffset),
         warheadhits     |-> betoW(obj, WarheadhitsOffset),
         trainingpoints  |-> [i \in 0..(NumTraining - 1) |-> betoDW(obj, TrainingOffset(i))],
         battlepoints    |-> [i \in 0..(NumBattlePoints - 1) |-> betoDW(obj, BattlepointsOffset(i))],
         total           |-> betoW(obj, TotalOffset),
         captured        |-> betoW(obj, CapturedOffset),
         lost            |-> betoW(obj, LostOffset)]

(***************************************************************************)
(* The string tables.  An index past a table is a read past the array:     *)
(* the build either yields some other bytes as the string (OutOfTable) or  *)
(* faults (see OutputPilot).                                               *)
(***************************************************************************)
OutOfTable == "<read past the table>"

ranks == <<"Cadet", "Officer", "Lieutenant", "Captain", "Commander", "General">>
diffs == <<"easy", "medium", "hard">>
secretranks == <<"None", "First Initiate", "Second Circle", "Third Circle", "Fourth Circle",
                 "Inner Circle", "Emperor's Hand", "Emperor's Eyes", "Emperor's Voice",
                 "Emperor's Reach">>

shipnames == <<"X-W", "Y-W", "A-W", "B-W", "T/F", "T/I", "T/B", "T/A", "T/D", "TIE Neu1",
    "TIE Neu2", "RAK", "T-W", "Z-95", "R-41", "GUN", "FHR", "E/F", "PSC", "SCT",
    "TRN", "ATR", "ETR", "TUG", "MKS", "CN/A", "CN/B", "CN/C", "CN/D", "SSL",
    "Heavy Freighter", "FRT", "FFR", "MTRN", "CTRN", "Neuer Frachter 3", "MUTR", "CORT",
    "Millenium", "KRV", "M/KRV", "FRG", "M/FRG", "LINER", "CRKK", "ANGRK", "EST", "DREAD",
    "LCAL", "AKR", "VSZ", "ISZ", "Super Destroyer", "CN/E", "CN/F", "CN/G", "CN/H", "CN/I",
    "PLT/1", "PLT/2", "PLT/3", "PLT/4", "PLT/5", "PLT/6", "Raumstation7", "Raumstation8",
    "Raumstation9", "FAB/1">>

TableAt(table, code) == IF code < Len(table) THEN table[code + 1] ELSE OutOfTable

navyrank_toString(p) == TableAt(ranks, p.navyrank)
difficulty_toString(p) == TableAt(diffs, p.difficulty)
secretrank_toString(p) == TableAt(secretranks, p.secretrank)

\* whether printing p indexes a string table past its end
TableFault(p) ==
    \/ p.navyrank >= Len(ranks)
    \/ p.difficulty >= Len(diffs)
    \/ p.secretrank >= Len(secretranks)

\* string Pilot::getmedal(BYTE ship)
getmedal(ship) ==
    CASE ship = 2 -> "bronze"
      [] ship = 3 -> "silver"
      [] ship = 4 -> "gold"
      [] OTHER    -> "(none)"

(***************************************************************************)
(* operator<<(ostream&, Pilot): the lines written, each the sequence of    *)
(* the items streamed between two endl.                                    *)
(***************************************************************************)
certnames == <<" T/F", " T/I", " T/B", " T/A", " Gunboat", " T/D", " Missile Boat">>
medalnames == <<"\tT/F: ", "\tT/I: ", "\tT/B: ", "\tT/A: ", "\tGUN: ", "\tT/D: ",
                "\tMissile Boat: ">>

RECURSIVE CertItems(_, _)
CertItems(p, k) ==   \* the names streamed for ships k..6
    IF k = NumShips THEN <<>>
    ELSE (IF p.cert[k] = 4 THEN <<certnames[k + 1]>> ELSE <<>>) \o CertItems(p, k + 1)

CertLine(p) ==
    <<"Training Certificates:">>
        \o (IF CertItems(p, 0) = <<>> THEN <<" (none)">> ELSE CertItems(p, 0))

\* BYTE x_medal = 0; for(i < 4) x_medal += p.x_sim[i];  The sum stays a BYTE.
RECURSIVE MedalSum(_, _, _, _)
MedalSum(p, k, i, acc) ==
    IF i = SimMissions THEN acc
    ELSE MedalSum(p, k, i + 1, (acc + SimAt(p, k, i)) % 256)

\* the same sum kept in an int
RECURSIVE MedalSum_wide(_, _, _, _)
MedalSum_wide(p, k, i, acc) ==
    IF i = SimMissions THEN acc
    ELSE MedalSum_wide(p, k, i + 1, acc + SimAt(p, k, i))

MedalLines(p) ==
    <<<<"Ship Medals:">>>>
        \o [k \in 1..NumShips |-> <<medalnames[k], getmedal(MedalSum(p, k - 1, 0, 0))>>]

\* the same switch without the case 0x2 label
BattleLine_nocase2(p, i) ==
    <<"Battle ", i + 1, " status:\t">> \o
    (CASE p.battlestatus[i] = 1 -> <<"active. Last mission: ", p.missionchoose[i]>>
       [] p.battlestatus[i] = 3 -> <<"completed. Last mission: ", p.missionchoose[i]>>
       [] p.battlestatus[i] = 4 ->
              <<"captured or killed. Last mission: ", p.missionchoose[i]>>
       [] OTHER -> <<"unknown">>)

\* one iteration of the battle status loop: the switch on p.battlestatus[i]
BattleLine(p, i) ==
    <<"Battle ", i + 1, " status:\t">> \o
    (CASE p.battlestatus[i] = 1 -> <<"active. Last mission: ", p.missionchoose[i]>>
       [] p.battlestatus[i] = 3 -> <<"completed. Last mission: ", p.missionchoose[i]>>
       [] p.battlestatus[i] \in {2, 4} ->
              <<"captured or killed. Last mission: ", p.missionchoose[i]>>
       [] OTHER -> <<"unknown">>)

BattleLines(p) == [n \in 1..NumBattles |-> BattleLine(p, n - 1)]

LaserLine(p) ==
    <<p.lasersfired, " Lasers fired, ", p.laserhits, " Lasers hit">> \o
    (IF ~IsZero(p.lasersfired)
     THEN <<" (", Div32(Mul32(100, p.laserhits), p.lasersfired), "%)">>
     ELSE <<>>)

WarheadLine(p) ==
    <<p.warheadsfired, " Warheads fired, ", p.warheadhits, " Warheads hit">> \o
    (IF p.warheadsfired # 0
     THEN <<" (", (100 * p.warheadhits) \div p.warheadsfired, "%)">>
     ELSE <<>>)

KillLines(p) ==
    <<<<"Killdetails:">>>>
        \o [n \in 1..NumKills |-> <<shipnames[n], ":\t", p.kills[n - 1]>>]

\* the same loop labelling a line with its slot
PointLine_byindex(label, points, i, count) ==
    IF ~IsZero(points[i]) THEN <<<<label, i + 1, ":\t", points[i], " points">>>> ELSE <<>>

\* one iteration: if(p.trainingpoints[i]) { out << endl << "Training " << training
\*                                           << ":\t" << p.trainingpoints[i] << " points"; }
PointLine(label, points, i, count) ==
    IF ~IsZero(points[i]) THEN <<<<label, count, ":\t", points[i], " points">>>> ELSE <<>>

\* the iterations lo..hi-1 of the loop, entered with the counter at count; the
\* counter is incremented once per line written (the range is halved to keep
\* the evaluation shallow; the iterations run in array order)
RECURSIVE PointLoop(_, _, _, _, _)
PointLoop(label, points, lo, hi, count) ==
    IF hi = lo + 1 THEN PointLine(label, points, lo, count)
    ELSE LET mid == (lo + hi) \div 2
         IN  Strict(PointLoop(label, points, lo, mid, count),
                    LAMBDA first : first \o PointLoop(label, points, mid, hi, count + Len(first)))

\* int training = 1; for(int i=0; i<size; ++i) ...
PointLines(label, points, size) == PointLoop(label, points, 0, size, 1)

TrainingLines(p) == PointLines("Training ", p.trainingpoints, NumTraining)
BattlemissionLines(p) == PointLines("Battlemission ", p.battlepoints, NumBattlePoints)

OutputLines(p) ==
    << <<"Navyrank:\t", navyrank_toString(p)>>,
       <<"Secret order:\t", secretrank_toString(p)>>,
       <<"Difficulty:\t", difficulty_toString(p)>>,
       <<"Points:\t\t", ToInt32(p.points)>>,
       <<"Level:\t\t", p.level>>,
       CertLine(p) >>
    \o MedalLines(p)
    \o << <<"Active Battle:\t", p.activebattle + 1>> >>
    \o BattleLines(p)
    \o << LaserLine(p),
          WarheadLine(p),
          <<"Total kills:\t", p.total>>,
          <<"Ships Captured:\t", p.captured>>,
          <<"Ships Lost:\t", p.lost>> >>
    \o KillLines(p)
    \o TrainingLines(p)
    \o BattlemissionLines(p)

(***************************************************************************)
(* The inputs: the files main is run on.  `probe` notes the value a file   *)
(* was built to hold at one offset (w = 2: a WORD, w = 4: a DWORD).        *)
(***************************************************************************)
Uninit == {0, 255} \cup 1..MaxUninit

DWordSamples ==
    {FromInt(n) : n \in {0, 1, 37, 100, 42949672, 42949673}}
        \cup {[hi |-> 32768, lo |-> 0], [hi |-> 65535, lo |-> 65535]}
WordSamples == {0, 1, 37, 100, 655, 656, 32768, 65535}

Lens == {0, 1, 2, 3, 4, 11, FileSize - 1} \cup FileSize..(FileSize + MaxExtraLen)

MissingFile == MkFile(FALSE, 0, 0, NoPokes)

FamLength == {MkFile(TRUE, n, b, NoPokes) : n \in Lens, b \in {0, 1, 255}}

FamShort ==
    {MkFile(TRUE, n, b, (n - 1) :> v) :
        n \in {n \in Lens : 0 < n /\ n < FileSize}, b \in {0, 1}, v \in {0, 1, 2, 200}}

FamEnum ==
    {MkFile(TRUE, FileSize, 0, off :> c) :
        off \in {NavyrankOffset, DifficultyOffset, SecretrankOffset}, c \in Byte}

SimPokes(k, cs) == [i \in SimOffset(k, 0)..SimOffset(k, SimMissions - 1) |-> cs[i - SimOffset(k, 0)]]
FamMedal ==
    {MkFile(TRUE, FileSize, 0, SimPokes(0, cs)) : cs \in [0..(SimMissions - 1) -> {0, 1, 2, 255}]}
    \cup {MkFile(TRUE, FileSize, 0, SimPokes(k, cs)) :
            k \in 1..(NumShips - 1), cs \in [0..(SimMissions - 1) -> {0, 1}]}

FamWeapons ==
    {MkFile(TRUE, FileSize, 0, EncodeDW(LasersfiredOffset, f) @@ EncodeDW(LaserhitsOffset, h)) :
        f \in DWordSamples, h \in DWordSamples}
    \cup {MkFile(TRUE, FileSize, 0, EncodeW(WarheadsfiredOffset, f) @@ EncodeW(WarheadhitsOffset, h)) :
        f \in WordSamples, h \in WordSamples}

\* a point array with the slots of S non-zero; scheme 1 holds 150, 300, ... in
\* slot order, scheme 2 the largest DWORD, scheme 3 a value with only its top byte set
PointValue(scheme, S, j) ==
    CASE scheme = 1 -> FromInt(150 * Cardinality({s \in S : s <= j}))
      [] scheme = 2 -> [hi |-> 65535, lo |-> 65535]
      [] scheme = 3 -> [hi |-> 256, lo |-> 0]
PointPokes(base, scheme, S) ==
    [i \in UNION {(base + 4 * j)..(base + 4 * j + 3) : j \in S} |->
        LET j == (i - base) \div 4
        IN  EncodeDW(base + 4 * j, PointValue(scheme, S, j))[i]]
SlotSample(size) == {j \in 0..(size - 1) : j < MaxSlotSample \/ j = size - 1}
FamPoints ==
    {MkFile(TRUE, FileSize, 0, PointPokes(TrainingOffset(0), sc, S)) :
        sc \in 1..3, S \in SUBSET SlotSample(NumTraining)}
    \cup {MkFile(TRUE, FileSize, 0, PointPokes(BattlepointsOffset(0), sc, S)) :
        sc \in 1..3, S \in SUBSET SlotSample(NumBattlePoints)}

WithProbe(f, w, off, v) == [f EXCEPT !.probe = [w |-> w, off |-> off, v |-> v]]
DProbeOffsets ==
    {0, PointsOffset, LasersfiredOffset, TrainingOffset(0), BattlepointsOffset(NumBattlePoints - 1),
     FileSize - 4}
WProbeOffsets == {0, LevelOffset, KillsOffset(0), KillsOffset(NumKills - 1), TotalOffset, FileSize - 2}
FamProbe ==
    {WithProbe(MkFile(TRUE, FileSize, b, EncodeDW(off, v)), 4, off, v) :
        b \in {0, 255}, off \in DProbeOffsets,
        v \in DWordSamples \cup {[hi |-> 4660, lo |-> 22136], [hi |-> 128, lo |-> 32896]}}
    \cup {WithProbe(MkFile(TRUE, FileSize, b, EncodeW(off, v)), 2, off, FromInt(v)) :
        b \in {0, 255}, off \in WProbeOffsets, v \in WordSamples \cup {4660, 32896}}

FamCampaign ==
    {MkFile(TRUE, FileSize, 0, ((BattlestatusOffset + i) :> st) @@ ((MissionchooseOffset + i) :> m)) :
        i \in 0..(NumBattles - 1), st \in {0, 1, 2, 3, 4, 5, 255}, m \in {0, 6, 255}}
    \cup {MkFile(TRUE, FileSize, 0, (BattlestatusOffset :> st) @@ (MissionchooseOffset :> 6)) :
        st \in Byte}

FamCert ==
    {MkFile(TRUE, FileSize, 0, [i \in CertOffset..(CertOffset + NumShips - 1) |-> c[i - CertOffset]]) :
        c \in {[k \in 0..(NumShips - 1) |-> IF k = one THEN 4 ELSE 2] : one \in 0..NumShips}
              \cup {[k \in 0..(NumShips - 1) |-> 4]}}

InputFiles ==
    {MissingFile} \cup FamLength \cup FamShort \cup FamEnum \cup FamMedal \cup FamWeapons
        \cup FamPoints \cup FamProbe \cup FamCampaign \cup FamCert

(***************************************************************************)
(* The program: main.                                                      *)
(*   pc        "main" -> "constructed" -> "printed" -> "exited", or        *)
(*             "main" -> "exited" (usage), or "constructed" -> "crashed"   *)
(*   p         the Pilot object once constructed                          *)
(*   reads     the <<offset, width>> reads of pilotfilebuffer performed   *)
(*   cout, cerr the lines written                                          *)
(*   exitcode  main's return value, meaningful once pc = "exited"          *)
(***************************************************************************)
VARIABLES argc, file, pc, p, reads, cout, cerr, exitcode

vars == <<argc, file, pc, p, reads, cout, cerr, exitcode>>

Init ==
    /\ \/ argc \in {1, 3} /\ file = MissingFile
       \/ argc = 2 /\ file \in InputFiles
    /\ pc = "main"
    /\ p = <<>>
    /\ reads = {}
    /\ cout = <<>>
    /\ cerr = <<>>
    /\ exitcode = 0

\* if(argc != 2) { cerr << "Please name a pilot file as parameter" << endl; return -1; }
Usage ==
    /\ pc = "main"
    /\ argc # 2
    /\ cerr' = <<"Please name a pilot file as parameter">>
    /\ exitcode' = -1
    /\ pc' = "exited"
    /\ UNCHANGED <<argc, file, p, reads, cout>>

\* Pilot p(filename);
Construct ==
    /\ pc = "main"
    /\ argc = 2
    /\ \E uninit \in (IF file.exists /\ file.len = 0 THEN Uninit ELSE {0}), unused1 \in Uninit,
          order \in SimStoreOrders :
          p' = PilotOf(file, uninit, unused1, order)
    /\ reads' = DecoderReads
    /\ pc' = "constructed"
    /\ UNCHANGED <<argc, file, cout, cerr, exitcode>>

\* cout << p << endl;  A string table indexed past its end either faults or
\* yields other memory as the string.
OutputPilot ==
    /\ pc = "constructed"
    /\ \/ /\ cout' = OutputLines(p)
          /\ pc' = "printed"
       \/ /\ TableFault(p)
          /\ cout' = <<>>
          /\ pc' = "crashed"
    /\ UNCHANGED <<argc, file, p, reads, cerr, exitcode>>

\* falling off the end of main returns 0
Return ==
    /\ pc = "printed"
    /\ exitcode' = 0
    /\ pc' = "exited"
    /\ UNCHANGED <<argc, file, p, reads, cout, cerr>>

Next == Usage \/ Construct \/ OutputPilot \/ Return

Spec == Init /\ [][Next]_vars

(***************************************************************************)
(* Where the program is, and where the lines of cout are.                  *)
(***************************************************************************)
Constructed == argc = 2 /\ pc \in {"constructed", "printed", "crashed", "exited"}
Printed == argc = 2 /\ pc \in {"printed", "exited"}

HeaderLines == 6                       \* Navyrank .. Training Certificates
MedalLineAt(k) == cout[HeaderLines + 1 + k + 1]            \* ship k = 0..6
BattleLineAt(i) == cout[HeaderLines + 1 + NumShips + 1 + i + 1]   \* slot i = 0..12
StatLinesFrom == HeaderLines + 1 + NumShips + 1 + NumBattles
LaserLineAt == cout[StatLinesFrom + 1]
WarheadLineAt == cout[StatLinesFrom + 2]
KillLineAt(i) == cout[StatLinesFrom + 5 + 1 + i + 1]       \* kill slot i = 0..67
FixedLines == StatLinesFrom + 5 + 1 + NumKills             \* lines before the point lines

FullFile == file.exists /\ file.len >= FileSize   \* the load loop reads 3855 bytes
\* a run on a full file that printed without indexing past a string table
CleanRun == Printed /\ FullFile /\ ~TableFault(p)
IsAllZero(f) == f.base = 0 /\ \A i \in DOMAIN f.pokes : f.pokes[i] = 0

(***************************************************************************)
(* C1.  Every read of width W at offset O that the decoder performs on the *)
(* 3855-byte buffer has O + W <= 3855; none goes past the end.             *)
(* Fails: lost = betoW(3854) reads pilotfilebuffer[3855].                  *)
(***************************************************************************)
C1_ReadsInBounds == \A r \in reads : r[1] + r[2] <= FileSize

(***************************************************************************)
(* C2.  Zero-extension: after the load loop of an input of n < 3855 bytes  *)
(* the buffer holds the n input bytes, then 0 at every index n..3854.      *)
(* Fails: the padding is the last byte read (or an uninitialised byte).    *)
(***************************************************************************)
C2_ZeroExtension ==
    (Constructed /\ file.exists /\ file.len < FileSize) =>
        \A i \in 0..(FileSize - 1) :
            p.pilotfilebuffer[i] = (IF i < file.len THEN FileByte(file, i) ELSE 0)

(***************************************************************************)
(* C3.  The rank, difficulty and secret-rank translators are total over    *)
(* 0..255: no code indexes outside the label table (so printing never      *)
(* faults and never shows bytes from past a table), and the codes 0..5,    *)
(* 0..2, 0..9 give the documented labels.                                  *)
(* Fails: a code past the table is used as the index unchecked.            *)
(***************************************************************************)
C3_EnumTotal ==
    (argc = 2 /\ pc \in {"printed", "crashed", "exited"} /\ FullFile) =>
        /\ pc # "crashed"
        /\ cout[1][2] # OutOfTable /\ cout[2][2] # OutOfTable /\ cout[3][2] # OutOfTable
        /\ p.navyrank < 6 => cout[1][2] = ranks[p.navyrank + 1]
        /\ p.secretrank < 10 => cout[2][2] = secretranks[p.secretrank + 1]
        /\ p.difficulty < 3 => cout[3][2] = diffs[p.difficulty + 1]

(***************************************************************************)
(* C4.  With exactly one argument naming a file that cannot be opened, the *)
(* run ends with a non-zero exit code and nothing on standard output.      *)
(* Fails: the all-zero record is printed and main returns 0.               *)
(***************************************************************************)
C4_MissingFileFails ==
    (argc = 2 /\ ~file.exists) =>
        /\ cout = <<>>
        /\ pc = "exited" => exitcode # 0

(***************************************************************************)
(* C5.  The all-zero 3855-byte input decodes with no read out of bounds    *)
(* and no error, and renders rank Cadet, difficulty easy, secret rank      *)
(* None, 0 kills in each of the 68 slots, the "(none)" certificates and no *)
(* training or battle-mission point line.                                  *)
(* Fails on the read out of bounds of C1; the rendered lines are as stated *)
(* (C5_AllZeroRendering).                                                  *)
(***************************************************************************)
C5_AllZeroRendering ==
    (Printed /\ FullFile /\ IsAllZero(file)) =>
        /\ cout[1] = <<"Navyrank:\t", "Cadet">>
        /\ cout[2] = <<"Secret order:\t", "None">>
        /\ cout[3] = <<"Difficulty:\t", "easy">>
        /\ cout[6] = <<"Training Certificates:", " (none)">>
        /\ \A i \in 0..(NumKills - 1) : KillLineAt(i) = <<shipnames[i + 1], ":\t", 0>>
        /\ Len(cout) = FixedLines

C5_AllZeroEndToEnd ==
    (Constructed /\ FullFile /\ IsAllZero(file)) =>
        /\ \A r \in reads : r[1] + r[2] <= FileSize
        /\ pc # "crashed"
        /\ C5_AllZeroRendering

(***************************************************************************)
(* C6.  The medal of a unit is the tier of the sum of its four counters,   *)
(* for every sum 0..1020: 2 bronze, 3 silver, 4 gold, every other sum      *)
(* (0, 1, 5, 258, 260, ...) no medal.  The counters are those the renderer *)
(* adds up, the no-medal label is the code's "(none)".                     *)
(* Fails: the sum is kept in a BYTE, so 258 is taken for 2.                *)
(***************************************************************************)
C6_Tier(sum) ==
    CASE sum = 2 -> "bronze" [] sum = 3 -> "silver" [] sum = 4 -> "gold" [] OTHER -> "(none)"

C6_MedalTier ==
    CleanRun =>
        \A k \in 0..(NumShips - 1) :
            MedalLineAt(k) = <<medalnames[k + 1], C6_Tier(MedalSum_wide(p, k, 0, 0))>>

(***************************************************************************)
(* C7.  Weapon accuracy: the fired and hit counts are always rendered; the *)
(* percentage clause is rendered iff fired > 0, and is then exactly        *)
(* floor(100 * hits / fired), for lasers (32-bit) and warheads (16-bit).   *)
(* Fails for lasers: 100 * laserhits is computed in 32 bits and wraps.     *)
(***************************************************************************)
C7_WeaponAccuracy ==
    CleanRun =>
        LET l == LaserLineAt
            w == WarheadLineAt
        IN  /\ l[1] = p.lasersfired /\ l[3] = p.laserhits
            /\ Len(l) = (IF IsZero(p.lasersfired) THEN 4 ELSE 7)
            /\ Len(l) = 7 => l[6] = Div(MulSmall(100, p.laserhits), p.lasersfired)
            /\ w[1] = p.warheadsfired /\ w[3] = p.warheadhits
            /\ Len(w) = (IF p.warheadsfired = 0 THEN 4 ELSE 7)
            /\ Len(w) = 7 => w[6] = (100 * p.warheadhits) \div p.warheadsfired

(***************************************************************************)
(* C8.  Point-array suppression: after the fixed lines, cout holds exactly *)
(* one line per non-zero training slot, in array order, then one per       *)
(* non-zero battle slot, in array order, and none for a zero slot; the     *)
(* n-th line of a section is labelled n (counting from 1 in each section)  *)
(* and carries the points of the n-th non-zero slot.                       *)
(***************************************************************************)
NonZeroSlots(points) == {i \in DOMAIN points : ~IsZero(points[i])}
NthSlot(S, n) == CHOOSE i \in S : Cardinality({j \in S : j < i}) = n - 1

C8_PointSuppression ==
    Printed =>
        LET T == NonZeroSlots(p.trainingpoints)
            B == NonZeroSlots(p.battlepoints)
            nT == Cardinality(T)
            nB == Cardinality(B)
        IN  /\ Len(cout) = FixedLines + nT + nB
            /\ \A n \in 1..nT :
                  cout[FixedLines + n]
                      = <<"Training ", n, ":\t", p.trainingpoints[NthSlot(T, n)], " points">>
            /\ \A n \in 1..nB :
                  cout[FixedLines + nT + n]
                      = <<"Battlemission ", n, ":\t", p.battlepoints[NthSlot(B, n)], " points">>

\* training points [0, 150, 0, 300, 0, ...] printed as Training 1 and Training 2
C8_Witness ==
    /\ Printed
    /\ NonZeroSlots(p.trainingpoints) = {1, 3}
    /\ p.trainingpoints[1] = FromInt(150) /\ p.trainingpoints[3] = FromInt(300)
    /\ cout[FixedLines + 1] = <<"Training ", 1, ":\t", FromInt(150), " points">>
    /\ cout[FixedLines + 2] = <<"Training ", 2, ":\t", FromInt(300), " points">>
    /\ Len(cout) = FixedLines + 2

(***************************************************************************)
(* C9.  Reader round-trip: a file built to hold the value v at an offset,  *)
(* least significant byte first, reads back as exactly v through betoW     *)
(* (16 bits) and betoDW (32 bits), whatever the other bytes are, and so    *)
(* does the field the decoder reads at that offset.                        *)
(***************************************************************************)
C9_RoundTrip ==
    (Constructed /\ file.probe.w # 0) =>
        LET pr == file.probe
        IN  /\ pr.off + pr.w <= FileSize
            /\ pr.w = 2 =>
                 /\ FromInt(betoW(p, pr.off)) = pr.v
                 /\ pr.off = LevelOffset => FromInt(p.level) = pr.v
                 /\ pr.off = KillsOffset(0) => FromInt(p.kills[0]) = pr.v
                 /\ pr.off = KillsOffset(NumKills - 1) => FromInt(p.kills[NumKills - 1]) = pr.v
                 /\ pr.off = TotalOffset => FromInt(p.total) = pr.v
            /\ pr.w = 4 =>
                 /\ betoDW(p, pr.off) = pr.v
                 /\ pr.off = PointsOffset => p.points = pr.v
                 /\ pr.off = LasersfiredOffset => p.lasersfired = pr.v
                 /\ pr.off = TrainingOffset(0) => p.trainingpoints[0] = pr.v
                 /\ pr.off = BattlepointsOffset(NumBattlePoints - 1) =>
                        p.battlepoints[NumBattlePoints - 1] = pr.v

\* 0x80000000 among 0xFF bytes reads back as 2^31, with no sign extension
C9_Witness ==
    /\ Constructed
    /\ file.probe = [w |-> 4, off |-> PointsOffset, v |-> [hi |-> 32768, lo |-> 0]]
    /\ file.base = 255
    /\ p.points = [hi |-> 32768, lo |-> 0]
    /\ p.pilotfilebuffer[PointsOffset + 3] = 128
    /\ p.pilotfilebuffer[PointsOffset + 4] = 255

(***************************************************************************)
(* C10 as claimed.  For each campaign slot i the line shows the status of  *)
(* the byte at 617 + i (1 active, 3 completed, 2 or 4 captured or killed,  *)
(* else unknown) and has the last-mission counter of the byte at 637 + i   *)
(* appended.  Fails: an unknown status has no counter appended.            *)
(***************************************************************************)
C10_StatusText(st) ==
    CASE st = 1 -> "active. Last mission: "
      [] st = 3 -> "completed. Last mission: "
      [] st \in {2, 4} -> "captured or killed. Last mission: "
      [] OTHER -> "unknown"

C10_CampaignStatus ==
    CleanRun =>
        \A i \in 0..(NumBattles - 1) :
            LET st == p.pilotfilebuffer[617 + i]
                m == p.pilotfilebuffer[637 + i]
                line == BattleLineAt(i)
            IN  /\ line[4] = C10_StatusText(st)
                /\ Len(line) = 5
                /\ line[5] = m

(***************************************************************************)
(* C10 as amended.  For each campaign slot i the line shows the status of  *)
(* the byte at 617 + i: 1 active, 3 completed, 2 or 4 captured or killed,  *)
(* each followed by the last-mission counter of the byte at 637 + i; any   *)
(* other value gives "unknown" with no counter, and rendering goes on.     *)
(***************************************************************************)
C10_CampaignStatusAmended ==
    Printed =>
        \A i \in 0..(NumBattles - 1) :
            LET st == p.pilotfilebuffer[617 + i]
                m == p.pilotfilebuffer[637 + i]
                head == <<"Battle ", i + 1, " status:\t", C10_StatusText(st)>>
            IN  BattleLineAt(i) = (IF st \in 1..4 THEN head \o <<m>> ELSE head)

\* one slot captured or killed (code 2) at mission 6, another slot unknown
C10_Witness ==
    /\ Printed
    /\ \E i \in 0..(NumBattles - 1) :
          /\ p.pilotfilebuffer[617 + i] = 2 /\ p.pilotfilebuffer[637 + i] = 6
          /\ BattleLineAt(i) =
                 <<"Battle ", i + 1, " status:\t", "captured or killed. Last mission: ", 6>>
    /\ \E j \in 0..(NumBattles - 1) :
          /\ p.pilotfilebuffer[617 + j] = 0
          /\ BattleLineAt(j) = <<"Battle ", j + 1, " status:\t", "unknown">>

(***************************************************************************)
(* C11.  Medal sum per unit: the medal printed for unit k = 0..6 is the    *)
(* tier of the sum of exactly the four buffer bytes 520+8k .. 523+8k (the  *)
(* sum taken in a byte, as the renderer takes it), so no byte outside      *)
(* those four, and no counter of another unit, has a part in it.           *)
(* Fails: the arrays hold 3 elements, so the fourth counter of a unit and  *)
(* the first counter of the next unit share one byte of the object.        *)
(***************************************************************************)
C11_OwnSum(k) ==
    (p.pilotfilebuffer[520 + 8 * k] + p.pilotfilebuffer[521 + 8 * k]
        + p.pilotfilebuffer[522 + 8 * k] + p.pilotfilebuffer[523 + 8 * k]) % 256

C11_MedalSumPerUnit ==
    CleanRun =>
        \A k \in 0..(NumShips - 1) :
            MedalLineAt(k) = <<medalnames[k + 1], getmedal(C11_OwnSum(k))>>
====
